---- MODULE Spec2Model ----
(***************************************************************************)
(* A model of social_media_chatbot.py: the post store (PostMemory), the    *)
(* three generators (topic, content, hashtags), the orchestrator           *)
(* (AIInfluencerChatbot.generate_complete_post and _save_post) and the     *)
(* conversational window (ConversationBufferWindowMemory with k = 5).      *)
(*                                                                         *)
(* A Python str is a sequence of one-character strings, None is Null, a    *)
(* dict is a record (a key the dict lacks is a field the record lacks), a  *)
(* raised exception is the value Raise(type).  The language model is the   *)
(* environment: every call either fails or returns a reply, chosen by the  *)
(* action that makes the call.                                             *)
(***************************************************************************)
EXTENDS Integers, Sequences, FiniteSets, TLC

(***************************************************************************)
(* Python values                                                           *)
(***************************************************************************)
Null == <<"<None>">>

Raise(type) == [exception |-> type]

IsRaise(v) == "exception" \in DOMAIN v

Return(value) == [returned |-> value]

Min(a, b) == IF a <= b THEN a ELSE b

(***************************************************************************)
(* The string literals of the source and of the inputs used below          *)
(***************************************************************************)
\* 'None'
s_None ==
    <<"N","o","n","e">>

\* 'Latest '
s_Latest ==
    <<"L","a","t","e","s","t"," ">>

\* ' Insights'
s_Insights ==
    <<" ","I","n","s","i","g","h","t","s">>

\* 'Discover game-changing strategies'
s_Discover_game_changing_strategies ==
    <<"D","i","s","c","o","v","e","r"," ","g","a","m","e","-","c","h","a","n","g","i",
        "n","g"," ","s","t","r","a","t","e","g","i","e","s">>

\* 'Expert perspective'
s_Expert_perspective ==
    <<"E","x","p","e","r","t"," ","p","e","r","s","p","e","c","t","i","v","e">>

\* 'What are your thoughts?'
s_What_are_your_thoughts ==
    <<"W","h","a","t"," ","a","r","e"," ","y","o","u","r"," ","t","h","o","u","g","h",
        "t","s","?">>

\* 'Ready to transform your approach?'
s_Ready_to_transform_your ==
    <<"R","e","a","d","y"," ","t","o"," ","t","r","a","n","s","f","o","r","m"," ","y",
        "o","u","r"," ","a","p","p","r","o","a","c","h","?">>

\* 'Expert insights and practical tips'
s_Expert_insights_and_practical ==
    <<"E","x","p","e","r","t"," ","i","n","s","i","g","h","t","s"," ","a","n","d"," ",
        "p","r","a","c","t","i","c","a","l"," ","t","i","p","s">>

\* "What's your experience with this?"
s_Whats_your_experience ==
    <<"W","h","a","t","'","s"," ","y","o","u","r"," ","e","x","p","e","r","i","e","n",
        "c","e"," ","w","i","t","h"," ","t","h","i","s","?">>

\* '<newline><newline>Stay tuned for more insights on '
s_Stay_tuned_for_more ==
    <<"\n","\n","S","t","a","y"," ","t","u","n","e","d"," ","f","o","r"," ","m","o","r",
        "e"," ","i","n","s","i","g","h","t","s"," ","o","n"," ">>

\* '!<newline><newline>'
s_bang_newlines ==
    <<"!","\n","\n">>

\* '#content'
s_hash_content ==
    <<"#","c","o","n","t","e","n","t">>

\* '#socialmedia'
s_hash_socialmedia ==
    <<"#","s","o","c","i","a","l","m","e","d","i","a">>

\* 'Using basic keyword-based hashtags'
s_Using_basic_keyword_based ==
    <<"U","s","i","n","g"," ","b","a","s","i","c"," ","k","e","y","w","o","r","d","-",
        "b","a","s","e","d"," ","h","a","s","h","t","a","g","s">>

\* 'Moderate reach expected'
s_Moderate_reach_expected ==
    <<"M","o","d","e","r","a","t","e"," ","r","e","a","c","h"," ","e","x","p","e","c",
        "t","e","d">>

\* 'N/A'
s_N_A ==
    <<"N","/","A">>

\* 'general'
s_general ==
    <<"g","e","n","e","r","a","l">>

\* 'content'
s_content ==
    <<"c","o","n","t","e","n","t">>

\* 'Generate a '
s_Generate_a ==
    <<"G","e","n","e","r","a","t","e"," ","a"," ">>

\* ' post about '
s_post_about ==
    <<" ","p","o","s","t"," ","a","b","o","u","t"," ">>

\* 'Generated post: '
s_Generated_post ==
    <<"G","e","n","e","r","a","t","e","d"," ","p","o","s","t",":"," ">>

\* ' I encountered an error: '
s_I_encountered_an_error ==
    <<" ","I"," ","e","n","c","o","u","n","t","e","r","e","d"," ","a","n"," ","e","r",
        "r","o","r",":"," ">>

\* '. Let me try to help you in a simpler way.'
s_Let_me_try_to ==
    <<"."," ","L","e","t"," ","m","e"," ","t","r","y"," ","t","o"," ","h","e","l","p",
        " ","y","o","u"," ","i","n"," ","a"," ","s","i","m","p","l","e","r"," ","w",
        "a","y",".">>

\* ' Conversation history cleared!'
s_Conversation_history_cleared ==
    <<" ","C","o","n","v","e","r","s","a","t","i","o","n"," ","h","i","s","t","o","r",
        "y"," ","c","l","e","a","r","e","d","!">>

\* 'Fit Tips<newline>for everyone'
s_Fit_Tips_for_everyone ==
    <<"F","i","t"," ","T","i","p","s","\n","f","o","r"," ","e","v","e","r","y","o","n",
        "e">>

\* 'Try {this<newline>now}'
s_Try_this_now ==
    <<"T","r","y"," ","{","t","h","i","s","\n","n","o","w","}">>

\* '{"title": "Fit Tips", "hook": "Go"}'
s_json_title_hook ==
    <<"{","\"","t","i","t","l","e","\"",":"," ","\"","F","i","t"," ","T","i","p","s",
        "\"",","," ","\"","h","o","o","k","\"",":"," ","\"","G","o","\"","}">>

\* 'Fit Tips'
s_Fit_Tips ==
    <<"F","i","t"," ","T","i","p","s">>

\* 'Go'
s_Go ==
    <<"G","o">>

\* '{"title": null}'
s_json_title_null ==
    <<"{","\"","t","i","t","l","e","\"",":"," ","n","u","l","l","}">>

\* '{"hook": "Go"}'
s_json_hook_Go ==
    <<"{","\"","h","o","o","k","\"",":"," ","\"","G","o","\"","}">>

\* ' Go fit! <newline>'
s_Go_fit_padded ==
    <<" ","G","o"," ","f","i","t","!"," ","\n">>

\* '{"primary_hashtags": [...]}'
s_json_primary_hashtags ==
    <<"{","\"","p","r","i","m","a","r","y","_","h","a","s","h","t","a","g","s","\"",":",
        " ","[",".",".",".","]","}">>

\* '#alt'
s_hash_alt ==
    <<"#","a","l","t">>

\* 'mix'
s_mix ==
    <<"m","i","x">>

\* 'high'
s_high ==
    <<"h","i","g","h">>

\* '{"strategy": "mix"}'
s_json_strategy_mix ==
    <<"{","\"","s","t","r","a","t","e","g","y","\"",":"," ","\"","m","i","x","\"","}">>

\* '#fit #gym'
s_hash_fit_gym ==
    <<"#","f","i","t"," ","#","g","y","m">>

\* '{#fit}'
s_brace_fit ==
    <<"{","#","f","i","t","}">>

\* 'FIT'
s_FIT ==
    <<"F","I","T">>

\* '#t02'
s_hash_t02 ==
    <<"#","t","0","2">>

\* 'alpha bravo charlie delta echo foxtrot golf hotel india juliet kilo lima<newline>more'
s_twelve_words ==
    <<"a","l","p","h","a"," ","b","r","a","v","o"," ","c","h","a","r","l","i","e"," ",
        "d","e","l","t","a"," ","e","c","h","o"," ","f","o","x","t","r","o","t"," ",
        "g","o","l","f"," ","h","o","t","e","l"," ","i","n","d","i","a"," ","j","u",
        "l","i","e","t"," ","k","i","l","o"," ","l","i","m","a","\n","m","o","r","e">>

\* 'hi'
s_hi ==
    <<"h","i">>

\* 'Tips?'
s_Tips_question ==
    <<"T","i","p","s","?">>

\* ' Sure! '
s_Sure_padded ==
    <<" ","S","u","r","e","!"," ">>

UpperChars == <<"A","B","C","D","E","F","G","H","I","J","K","L","M","N","O","P","Q","R","S","T",
      "U","V","W","X","Y","Z">>

LowerChars == <<"a","b","c","d","e","f","g","h","i","j","k","l","m","n","o","p","q","r","s","t",
      "u","v","w","x","y","z">>

IsUpper(c) == \E i \in 1..Len(UpperChars) : UpperChars[i] = c

IsLower(c) == \E i \in 1..Len(LowerChars) : LowerChars[i] = c

IsCased(c) == IsUpper(c) \/ IsLower(c)

IsSpace(c) == c \in {" ", "\n", "\t"}

LowerChar(c) ==
    IF IsUpper(c)
    THEN LowerChars[CHOOSE i \in 1..Len(UpperChars) : UpperChars[i] = c]
    ELSE c

UpperChar(c) ==
    IF IsLower(c)
    THEN UpperChars[CHOOSE i \in 1..Len(LowerChars) : LowerChars[i] = c]
    ELSE c

\* str.lower()
lower(s) == IF s = <<>> THEN <<>> ELSE [i \in 1..Len(s) |-> LowerChar(s[i])]

\* str.title(): a cased character is upper-cased when it follows an uncased
\* character (or starts the string) and lower-cased otherwise.
title(s) ==
    IF s = <<>> THEN <<>>
    ELSE [i \in 1..Len(s) |->
            IF i = 1 \/ ~IsCased(s[i - 1]) THEN UpperChar(s[i]) ELSE LowerChar(s[i])]

RECURSIVE SplitFrom(_, _, _, _)
SplitFrom(s, i, word, words) ==
    IF i > Len(s)
    THEN IF word = <<>> THEN words ELSE Append(words, word)
    ELSE IF IsSpace(s[i])
         THEN SplitFrom(s, i + 1, <<>>, IF word = <<>> THEN words ELSE Append(words, word))
         ELSE SplitFrom(s, i + 1, Append(word, s[i]), words)

\* str.split(): the maximal runs of non-whitespace characters, in order.
split(s) == SplitFrom(s, 1, <<>>, <<>>)

RECURSIVE first_kept(_, _)
first_kept(s, i) == IF i > Len(s) \/ ~IsSpace(s[i]) THEN i ELSE first_kept(s, i + 1)

RECURSIVE last_kept(_, _)
last_kept(s, i) == IF i < 1 \/ ~IsSpace(s[i]) THEN i ELSE last_kept(s, i - 1)

\* str.strip(): leading and trailing whitespace removed.
strip(s) == SubSeq(s, first_kept(s, 1), last_kept(s, Len(s)))

\* str.split('\n')[0]: the text before the first line break.
FirstLine(s) ==
    LET breaks == {i \in 1..Len(s) : s[i] = "\n"}
    IN  IF breaks = {} THEN s
        ELSE SubSeq(s, 1, (CHOOSE i \in breaks : \A j \in breaks : i <= j) - 1)

\* q in s, for two str.
Contains(q, s) == \E i \in 0..(Len(s) - Len(q)) : SubSeq(s, i + 1, i + Len(q)) = q

\* l[:n], for n >= 0.
Slice(l, n) == SubSeq(l, 1, Min(n, Len(l)))

\* The text an f-string puts for a value: None is written "None".
Format(v) == IF v = Null THEN s_None ELSE v

\* dict.get(key, default)
Get(d, key, default) == IF key \in DOMAIN d THEN d[key] ELSE default

\* ' '.join(l)
RECURSIVE JoinSpace(_)
JoinSpace(l) ==
    IF l = <<>> THEN <<>>
    ELSE IF Len(l) = 1 THEN l[1]
    ELSE l[1] \o <<" ">> \o JoinSpace(Tail(l))

(***************************************************************************)
(* The language model's behaviours.  A call fails (invoke raises) or       *)
(* returns a reply: its text (content), what re.search(r'\{.*\}') and      *)
(* json.loads make of it (span: "none" when no {...} span is found,        *)
(* "invalid" when the span does not parse, "object" when it does), and the *)
(* parsed object (obj).                                                    *)
(***************************************************************************)
Failure(message) ==
    [fails |-> TRUE, error |-> message, content |-> <<>>, span |-> "none", obj |-> [none |-> TRUE]]

Reply(text, spanKind, object) ==
    [fails |-> FALSE, error |-> <<>>, content |-> text, span |-> spanKind, obj |-> object]

(***************************************************************************)
(* TopicGenerator                                                          *)
(***************************************************************************)
generate_topic(niche, audience, tone, llm) ==
    IF llm.fails
    THEN [title |-> s_Latest \o title(niche) \o s_Insights,
          hook |-> s_Discover_game_changing_strategies,
          angle |-> s_Expert_perspective,
          engagement_question |-> s_What_are_your_thoughts]
    ELSE IF llm.span = "object"
    THEN llm.obj
    ELSE [title |-> FirstLine(llm.content),
          hook |-> s_Ready_to_transform_your,
          angle |-> s_Expert_insights_and_practical,
          engagement_question |-> s_Whats_your_experience]

(***************************************************************************)
(* ContentGenerator                                                        *)
(***************************************************************************)
s_instagram == <<"i","n","s","t","a","g","r","a","m">>

s_linkedin == <<"l","i","n","k","e","d","i","n">>

s_twitter == <<"t","w","i","t","t","e","r">>

s_facebook == <<"f","a","c","e","b","o","o","k">>

\* self.platform_limits.get(platform.lower(), 2200)
char_limit(platform) ==
    LET p == lower(platform)
    IN  IF p = s_instagram THEN 2200
        ELSE IF p = s_linkedin THEN 3000
        ELSE IF p = s_twitter THEN 280
        ELSE IF p = s_facebook THEN 63206
        ELSE 2200

\* Mutant of generate_content: the budget itself counts as over the limit.
generate_content_below_limit(topic_data, platform, llm) ==
    IF llm.fails
    THEN [content |-> Format(Get(topic_data, "hook", Null))
                      \o s_Stay_tuned_for_more
                      \o Format(Get(topic_data, "title", Null))
                      \o s_bang_newlines
                      \o Format(Get(topic_data, "engagement_question", Null)),
          platform |-> platform,
          character_count |-> 0,
          within_limit |-> TRUE]
    ELSE LET content == strip(llm.content)
         IN  [content |-> content,
              platform |-> platform,
              character_count |-> Len(content),
              within_limit |-> Len(content) < char_limit(platform)]

generate_content(topic_data, platform, llm) ==
    IF llm.fails
    THEN [content |-> Format(Get(topic_data, "hook", Null))
                      \o s_Stay_tuned_for_more
                      \o Format(Get(topic_data, "title", Null))
                      \o s_bang_newlines
                      \o Format(Get(topic_data, "engagement_question", Null)),
          platform |-> platform,
          character_count |-> 0,
          within_limit |-> TRUE]
    ELSE LET content == strip(llm.content)
         IN  [content |-> content,
              platform |-> platform,
              character_count |-> Len(content),
              within_limit |-> Len(content) <= char_limit(platform)]

(***************************************************************************)
(* HashtagGenerator                                                        *)
(***************************************************************************)
\* self.platform_limits.get(platform.lower(), 30)
hashtag_limit(platform) ==
    LET p == lower(platform)
    IN  IF p = s_instagram THEN 30
        ELSE IF p = s_linkedin THEN 10
        ELSE IF p = s_twitter THEN 5
        ELSE IF p = s_facebook THEN 8
        ELSE 30

\* topic_data.get('title', '').lower() raises AttributeError when the title
\* is None.
generate_fallback_hashtags(platform, topic_data) ==
    LET t == Get(topic_data, "title", <<>>)
    IN  IF t = Null THEN Raise("AttributeError")
        ELSE LET title_words == split(lower(t))
                 long_words == SelectSeq(title_words, LAMBDA word : Len(word) > 3)
                 basic_hashtags == [i \in DOMAIN long_words |-> <<"#">> \o long_words[i]]
             IN  [primary_hashtags |-> Slice(basic_hashtags, hashtag_limit(platform)),
                  alternative_hashtags |->
                      << <<"#">> \o platform, s_hash_content, s_hash_socialmedia >>,
                  strategy |-> s_Using_basic_keyword_based,
                  reach_prediction |-> s_Moderate_reach_expected,
                  total_primary |-> Len(basic_hashtags)]

\* Lines 295-297: truncate to the platform limit and recount; a parsed
\* object without the key raises KeyError.
truncate_and_recount(hashtag_data, limit) ==
    IF IsRaise(hashtag_data) THEN hashtag_data
    ELSE IF "primary_hashtags" \notin DOMAIN hashtag_data THEN Raise("KeyError")
    ELSE LET primary == Slice(hashtag_data.primary_hashtags, limit)
         IN  [k \in DOMAIN hashtag_data \cup {"total_primary"} |->
                 IF k = "primary_hashtags" THEN primary
                 ELSE IF k = "total_primary" THEN Len(primary)
                 ELSE hashtag_data[k]]

\* The body of the try block, then the except handler: any exception of the
\* body (the failed call, the fallback's AttributeError, the KeyError) is
\* answered with _generate_fallback_hashtags, whose own exception propagates.
generate_hashtags(topic_data, content_data, seo_keywords, llm) ==
    LET platform == Get(content_data, "platform", s_instagram)
        limit == hashtag_limit(platform)
        body == IF llm.fails THEN Raise("LLMError")
                ELSE truncate_and_recount(
                         IF llm.span = "object" THEN llm.obj
                         ELSE generate_fallback_hashtags(platform, topic_data),
                         limit)
    IN  IF IsRaise(body)
        THEN generate_fallback_hashtags(platform, topic_data)
        ELSE body

(***************************************************************************)
(* State                                                                   *)
(***************************************************************************)
VARIABLES
    clock,          \* the wall clock datetime.now() reads, in seconds
    posts_memory,   \* PostMemory.posts_memory: an insertion-ordered dict,
                    \* a sequence of [post_id, entry]
    disk,           \* the files of the posts directory: path -> contents
    chat_messages,  \* conversation_memory.chat_memory.messages
    n_calls,        \* how many times generate_complete_post has been called
    call,           \* the last operation called, its inputs and what the
                    \* environment (language model, file system) did in it
    ret             \* what that operation returned (Return) or raised (Raise)

vars == <<clock, posts_memory, disk, chat_messages, n_calls, call, ret>>

\* The two strftime formats differ in granularity: '%Y%m%d_%H%M%S' names the
\* second, '%y%m%d_%H%M' the minute.
SecondsPerMinute == 60

strftime_YmdHMS(t) == [format |-> "%Y%m%d_%H%M%S", value |-> t]

strftime_ymdHM(t) == [format |-> "%y%m%d_%H%M", value |-> t \div SecondsPerMinute]

\* os.path.join(posts_dir, f"{name}{extension}")
path_join(name, extension) == [dir |-> "posts", name |-> name, ext |-> extension]

(***************************************************************************)
(* json.dump and json.load.  A document is a tree of tokens: null, true,   *)
(* false, a number, a string holding the escaped characters between the    *)
(* quotes, an array, an object.  ensure_ascii=False leaves characters      *)
(* outside ASCII as they are, and both open() calls name utf-8.            *)
(***************************************************************************)
\* The characters of a string as json.dump writes them between the quotes:
\* the quote, the backslash and the newline are escaped.  (Long strings are
\* taken by halves.)
json_escape_char(c) ==
    CASE c = "\"" -> <<"\\", "\"">>
      [] c = "\\" -> <<"\\", "\\">>
      [] c = "\n" -> <<"\\", "n">>
      [] OTHER -> <<c>>

RECURSIVE json_escape(_)
json_escape(s) ==
    IF s = <<>> THEN <<>>
    ELSE IF Len(s) = 1 THEN json_escape_char(s[1])
    ELSE json_escape(SubSeq(s, 1, Len(s) \div 2))
         \o json_escape(SubSeq(s, Len(s) \div 2 + 1, Len(s)))

\* How many backslashes in a row end at place i of the text: an odd number
\* means the one at i opens an escape.
RECURSIVE backslashes_to(_, _)
backslashes_to(text, i) ==
    IF i = 0 \/ text[i] # "\\" THEN 0 ELSE 1 + backslashes_to(text, i - 1)

\* The string json.load reads from the characters between the quotes.  (Long
\* texts are taken by halves, never cut inside an escape.)
RECURSIVE json_unescape(_)
json_unescape(text) ==
    IF Len(text) <= 1 THEN text
    ELSE IF Len(text) = 2
    THEN IF text[1] = "\\"
         THEN <<IF text[2] = "n" THEN "\n" ELSE text[2]>>
         ELSE text
    ELSE LET half == Len(text) \div 2
             cut == IF backslashes_to(text, half) % 2 = 1 THEN half + 1 ELSE half
         IN  json_unescape(SubSeq(text, 1, cut))
             \o json_unescape(SubSeq(text, cut + 1, Len(text)))

\* The dicts the generators return and the parameters dict: their values
\* are counts, flags, lists of strings, and strings or None.
json_dump_dict(d) ==
    [json |-> "object",
     members |->
        [f \in DOMAIN d |->
            IF f \in {"character_count", "total_primary"}
            THEN [json |-> "number", value |-> d[f]]
            ELSE IF f = "within_limit"
            THEN [json |-> IF d[f] THEN "true" ELSE "false"]
            ELSE IF f \in {"primary_hashtags", "alternative_hashtags"}
            THEN [json |-> "array",
                  items |-> [i \in DOMAIN d[f] |->
                                [json |-> "string", text |-> json_escape(d[f][i])]]]
            ELSE IF d[f] = Null THEN [json |-> "null"]
            ELSE [json |-> "string", text |-> json_escape(d[f])]]]

\* json.dump(post_data): post_id and generation_timestamp are the strings
\* strftime and isoformat give, which hold nothing to escape.
json_dump(post_data) ==
    [json |-> "object",
     members |->
        [f \in DOMAIN post_data |->
            IF f \in {"post_id", "generation_timestamp"}
            THEN [json |-> "datetime", value |-> post_data[f]]
            ELSE IF f = "ready_to_post"
            THEN [json |-> IF post_data[f] THEN "true" ELSE "false"]
            ELSE json_dump_dict(post_data[f])]]

RECURSIVE json_load(_)
json_load(document) ==
    CASE document.json = "null" -> Null
      [] document.json = "true" -> TRUE
      [] document.json = "false" -> FALSE
      [] document.json = "number" -> document.value
      [] document.json = "datetime" -> document.value
      [] document.json = "string" -> json_unescape(document.text)
      [] document.json = "array" ->
            [i \in DOMAIN document.items |-> json_load(document.items[i])]
      [] document.json = "object" ->
            [f \in DOMAIN document.members |-> json_load(document.members[f])]

(***************************************************************************)
(* PostMemory                                                              *)
(***************************************************************************)
\* self.posts_memory[post_id] = entry: a new key goes last, an existing key
\* keeps its place and takes the new value.
dict_set(d, post_id, entry) ==
    IF \E i \in 1..Len(d) : d[i].post_id = post_id
    THEN [i \in 1..Len(d) |-> IF d[i].post_id = post_id
                              THEN [post_id |-> post_id, entry |-> entry]
                              ELSE d[i]]
    ELSE Append(d, [post_id |-> post_id, entry |-> entry])

\* self.posts_memory.values()
dict_values(d) == [i \in 1..Len(d) |-> d[i].entry]

\* post_data.get('post_id') is truthy exactly when the key is there: no post
\* id is empty.
add_post(d, post_data) ==
    LET post_id == post_data.post_id
    IN  IF "post_id" \notin DOMAIN post_data THEN d
        ELSE dict_set(d, post_id,
                 [platform |-> Get(Get(post_data, "parameters", <<>>), "platform", <<>>),
                  niche |-> Get(Get(post_data, "parameters", <<>>), "niche", <<>>),
                  title |-> Get(Get(post_data, "topic", <<>>), "title", <<>>),
                  content |-> Get(Get(post_data, "content", <<>>), "content", <<>>),
                  hashtags |-> Get(Get(post_data, "hashtags", <<>>), "primary_hashtags", <<>>),
                  timestamp |-> Get(post_data, "generation_timestamp", <<>>),
                  file_path |-> path_join(post_id, ".json")])

\* load_posts: every *.json file of the directory, in the order os.listdir
\* gives them (listing), sets the entry of its post id; the entry's file_path
\* is the path of the file read.
RECURSIVE load_posts(_, _)
load_posts(files, listing) ==
    IF listing = <<>> THEN <<>>
    ELSE LET loaded == load_posts(files, SubSeq(listing, 1, Len(listing) - 1))
             file_path == listing[Len(listing)]
             post_data == json_load(files[file_path].data)
         IN  IF file_path.ext # ".json" \/ "post_id" \notin DOMAIN post_data THEN loaded
             ELSE dict_set(loaded, post_data.post_id,
                      [platform |-> Get(Get(post_data, "parameters", <<>>), "platform", <<>>),
                       niche |-> Get(Get(post_data, "parameters", <<>>), "niche", <<>>),
                       title |-> Get(Get(post_data, "topic", <<>>), "title", <<>>),
                       content |-> Get(Get(post_data, "content", <<>>), "content", <<>>),
                       hashtags |-> Get(Get(post_data, "hashtags", <<>>), "primary_hashtags", <<>>),
                       timestamp |-> Get(post_data, "generation_timestamp", <<>>),
                       file_path |-> file_path])

\* The orders os.listdir may give the *.json files in.
Listings(files) ==
    LET json_files == {p \in DOMAIN files : p.ext = ".json"}
        n == Cardinality(json_files)
    IN  {l \in [1..n -> json_files] : \A i, j \in 1..n : l[i] = l[j] => i = j}

\* sorted(values, key=timestamp, reverse=True): a stable sort, so entries
\* with equal timestamps keep their order.
\* Mutant of insert_desc: sorts ascending and reverses, which turns the order
\* of entries with equal timestamps around.
RECURSIVE insert_desc_ties_reversed(_, _)
insert_desc_ties_reversed(sorted, e) ==
    IF sorted = <<>> THEN <<e>>
    ELSE IF Head(sorted).timestamp > e.timestamp
         THEN <<Head(sorted)>> \o insert_desc_ties_reversed(Tail(sorted), e)
         ELSE <<e>> \o sorted

RECURSIVE insert_desc(_, _)
insert_desc(sorted, e) ==
    IF sorted = <<>> THEN <<e>>
    ELSE IF Head(sorted).timestamp >= e.timestamp
         THEN <<Head(sorted)>> \o insert_desc(Tail(sorted), e)
         ELSE <<e>> \o sorted

RECURSIVE sorted_desc(_)
sorted_desc(l) ==
    IF l = <<>> THEN <<>>
    ELSE insert_desc(sorted_desc(SubSeq(l, 1, Len(l) - 1)), l[Len(l)])

get_recent_posts(d, limit) == Slice(sorted_desc(dict_values(d)), limit)

\* post['title'].lower() raises AttributeError on a title that is None; the
\* title is the first thing the loop reads of each post.
search_posts(d, query) ==
    LET q == lower(query)
        posts == dict_values(d)
        matches(post) ==
            \/ Contains(q, lower(post.title))
            \/ Contains(q, lower(post.content))
            \/ \E i \in 1..Len(post.hashtags) : Contains(q, lower(post.hashtags[i]))
    IN  IF \E i \in 1..Len(posts) : posts[i].title = Null
        THEN Raise("AttributeError")
        ELSE Return(SelectSeq(posts, matches))

(***************************************************************************)
(* ConversationBufferWindowMemory(k=5)                                     *)
(***************************************************************************)
k == 5

\* save_context: the input as a human message, the output as an AI message.
save_context(messages, input, output) ==
    messages \o <<[type |-> "human", content |-> input],
                  [type |-> "ai", content |-> output]>>

\* Mutant of buffer_of: the last k messages, not the last k turns.
buffer_of_k_messages(messages) ==
    IF Len(messages) <= k THEN messages
    ELSE SubSeq(messages, Len(messages) - k + 1, Len(messages))

\* The window the memory hands out: messages[-k * 2:].
buffer_of(messages) ==
    IF Len(messages) <= k * 2 THEN messages
    ELSE SubSeq(messages, Len(messages) - k * 2 + 1, Len(messages))

buffer == buffer_of(chat_messages)

(***************************************************************************)
(* AIInfluencerChatbot._save_post.  The file system either refuses to      *)
(* create the directory (os.makedirs raises, outside the try), refuses to  *)
(* open the JSON file or the text file (inside the try: printed and        *)
(* swallowed), or lets everything through.                                 *)
(***************************************************************************)
FileSystemOutcomes == {"ok", "makedirs_fails", "json_open_fails", "txt_open_fails"}

write_file(files, path, contents) ==
    [p \in DOMAIN files \cup {path} |-> IF p = path THEN contents ELSE files[p]]

text_report(post_data, platform, niche) ==
    [format |-> "txt",
     post_id |-> Get(post_data, "post_id", s_N_A),
     generated |-> Get(post_data, "generation_timestamp", s_N_A),
     platform |-> title(platform),
     niche |-> niche,
     title |-> Format(Get(Get(post_data, "topic", <<>>), "title", s_N_A)),
     hook |-> Format(Get(Get(post_data, "topic", <<>>), "hook", s_N_A)),
     content |-> Get(Get(post_data, "content", <<>>), "content", s_N_A),
     hashtags |-> JoinSpace(Get(Get(post_data, "hashtags", <<>>), "primary_hashtags", <<>>))]

\* Mutant of save_post: os.makedirs inside the try block, its failure swallowed
\* like a failed write.
save_post_makedirs_in_try(files, post_data, now, fs) ==
    LET platform == Get(Get(post_data, "parameters", <<>>), "platform", s_general)
        niche == Get(Get(post_data, "parameters", <<>>), "niche", s_content)
        base_filename == [platform |-> platform, niche |-> niche,
                          timestamp |-> strftime_ymdHM(now)]
        json_path == path_join(base_filename, ".json")
        txt_path == path_join(base_filename, ".txt")
        with_json == write_file(files, json_path, [format |-> "json", data |-> json_dump(post_data)])
    IN  IF fs \in {"makedirs_fails", "json_open_fails"} THEN [files |-> files]
        ELSE IF fs = "txt_open_fails" THEN [files |-> with_json]
        ELSE [files |-> write_file(with_json, txt_path,
                                   text_report(post_data, platform, niche))]

\* The files after the call (files), or the exception that leaves _save_post.
save_post(files, post_data, now, fs) ==
    LET platform == Get(Get(post_data, "parameters", <<>>), "platform", s_general)
        niche == Get(Get(post_data, "parameters", <<>>), "niche", s_content)
        base_filename == [platform |-> platform, niche |-> niche,
                          timestamp |-> strftime_ymdHM(now)]
        json_path == path_join(base_filename, ".json")
        txt_path == path_join(base_filename, ".txt")
        with_json == write_file(files, json_path, [format |-> "json", data |-> json_dump(post_data)])
    IN  IF fs = "makedirs_fails" THEN Raise("OSError")
        ELSE IF fs = "json_open_fails" THEN [files |-> files]
        ELSE IF fs = "txt_open_fails" THEN [files |-> with_json]
        ELSE [files |-> write_file(with_json, txt_path,
                                   text_report(post_data, platform, niche))]

(***************************************************************************)
(* AIInfluencerChatbot.generate_complete_post.  The clock is read for the  *)
(* post id, again for generation_timestamp (d1 seconds later) and again in *)
(* _save_post (d2 seconds after that).                                     *)
(***************************************************************************)
error_result(exception, now) ==
    [error |-> exception.exception, ready_to_post |-> FALSE, generation_timestamp |-> now]

\* Lines 427-441: the post record; the clock is read once for the id and
\* once for the timestamp.
compile_post(niche, audience, tone, platform, seo_keywords, topic_data, content_data, hashtag_data, id_now, timestamp_now) ==
    [post_id |-> [prefix |-> "ai_influencer_", timestamp |-> strftime_YmdHMS(id_now)],
     generation_timestamp |-> timestamp_now,
     parameters |-> [niche |-> niche, audience |-> audience, tone |-> tone,
                     platform |-> platform, seo_keywords |-> seo_keywords],
     topic |-> topic_data,
     content |-> content_data,
     hashtags |-> hashtag_data,
     ready_to_post |-> TRUE]

\* Mutant of GenerateCompletePost: the post is added to the index and the
\* window before _save_post is called, so they keep it when os.makedirs fails.
GenerateCompletePost_adding_first(niche, audience, tone, platform, seo_keywords, llm_topic, llm_content, llm_hashtags, fs, d1, d2) ==
    LET topic_data == generate_topic(niche, audience, tone, llm_topic)
        content_data == generate_content(topic_data, platform, llm_content)
        hashtag_data == generate_hashtags(topic_data, content_data, seo_keywords, llm_hashtags)
        complete_post == compile_post(niche, audience, tone, platform, seo_keywords,
                                      topic_data, content_data, hashtag_data,
                                      clock, clock + d1)
        saved == save_post(disk, complete_post, clock + d1 + d2, fs)
    IN  /\ n_calls' = n_calls + 1
        /\ call' = [op |-> "generate_complete_post",
                    niche |-> niche, audience |-> audience, tone |-> tone,
                    platform |-> platform,
                    llm_topic |-> llm_topic, llm_content |-> llm_content,
                    llm_hashtags |-> llm_hashtags,
                    generator_raised |-> IsRaise(hashtag_data),
                    fs |-> IF IsRaise(hashtag_data) THEN "untouched" ELSE fs]
        /\ IF IsRaise(hashtag_data)
           THEN /\ ret' = Return(error_result(hashtag_data, clock))
                /\ clock' = clock
                /\ UNCHANGED <<posts_memory, disk, chat_messages>>
           ELSE IF IsRaise(saved)
           THEN /\ ret' = Return(error_result(saved, clock + d1 + d2))
                /\ clock' = clock + d1 + d2
                /\ posts_memory' = add_post(posts_memory, complete_post)
                /\ chat_messages' = save_context(chat_messages,
                       s_Generate_a \o platform \o s_post_about \o niche,
                       s_Generated_post \o Format(Get(topic_data, "title", <<>>)))
                /\ UNCHANGED disk
           ELSE /\ disk' = saved.files
                /\ posts_memory' = add_post(posts_memory, complete_post)
                /\ chat_messages' = save_context(chat_messages,
                       s_Generate_a \o platform \o s_post_about \o niche,
                       s_Generated_post \o Format(Get(topic_data, "title", <<>>)))
                /\ ret' = Return(complete_post)
                /\ clock' = clock + d1 + d2

GenerateCompletePost(niche, audience, tone, platform, seo_keywords, llm_topic, llm_content, llm_hashtags, fs, d1, d2) ==
    LET topic_data == generate_topic(niche, audience, tone, llm_topic)
        content_data == generate_content(topic_data, platform, llm_content)
        hashtag_data == generate_hashtags(topic_data, content_data, seo_keywords, llm_hashtags)
        complete_post == compile_post(niche, audience, tone, platform, seo_keywords,
                                      topic_data, content_data, hashtag_data,
                                      clock, clock + d1)
        saved == save_post(disk, complete_post, clock + d1 + d2, fs)
    IN  /\ n_calls' = n_calls + 1
        /\ call' = [op |-> "generate_complete_post",
                    niche |-> niche, audience |-> audience, tone |-> tone,
                    platform |-> platform,
                    llm_topic |-> llm_topic, llm_content |-> llm_content,
                    llm_hashtags |-> llm_hashtags,
                    generator_raised |-> IsRaise(hashtag_data),
                    fs |-> IF IsRaise(hashtag_data) THEN "untouched" ELSE fs]
        /\ IF IsRaise(hashtag_data)
           THEN /\ ret' = Return(error_result(hashtag_data, clock))
                /\ clock' = clock
                /\ UNCHANGED <<posts_memory, disk, chat_messages>>
           ELSE IF IsRaise(saved)
           THEN /\ ret' = Return(error_result(saved, clock + d1 + d2))
                /\ clock' = clock + d1 + d2
                /\ UNCHANGED <<posts_memory, disk, chat_messages>>
           ELSE /\ disk' = saved.files
                /\ posts_memory' = add_post(posts_memory, complete_post)
                /\ chat_messages' = save_context(chat_messages,
                       s_Generate_a \o platform \o s_post_about \o niche,
                       s_Generated_post \o Format(Get(topic_data, "title", <<>>)))
                /\ ret' = Return(complete_post)
                /\ clock' = clock + d1 + d2

(***************************************************************************)
(* AIInfluencerChatbot.chat and clear_history.  ConversationChain.predict  *)
(* saves the turn only after the model has answered.                       *)
(***************************************************************************)
\* Mutant of Chat: the turn is saved before the model is called, so a failed
\* call leaves its input in the window.
Chat_saving_failed_turn(user_input, llm) ==
    /\ call' = [op |-> "chat", user_input |-> user_input, llm |-> llm]
    /\ IF llm.fails
       THEN /\ ret' = Return(<<"U+274C">> \o s_I_encountered_an_error \o llm.error
                             \o s_Let_me_try_to)
            /\ chat_messages' = save_context(chat_messages, user_input, <<>>)
       ELSE /\ ret' = Return(strip(llm.content))
            /\ chat_messages' = save_context(chat_messages, user_input, llm.content)
    /\ UNCHANGED <<clock, posts_memory, disk, n_calls>>

Chat(user_input, llm) ==
    /\ call' = [op |-> "chat", user_input |-> user_input, llm |-> llm]
    /\ IF llm.fails
       THEN /\ ret' = Return(<<"U+274C">> \o s_I_encountered_an_error \o llm.error
                             \o s_Let_me_try_to)
            /\ UNCHANGED chat_messages
       ELSE /\ ret' = Return(strip(llm.content))
            /\ chat_messages' = save_context(chat_messages, user_input, llm.content)
    /\ UNCHANGED <<clock, posts_memory, disk, n_calls>>

ClearHistory ==
    /\ call' = [op |-> "clear_history"]
    /\ chat_messages' = <<>>
    /\ ret' = Return(<<"U+1F9F9">> \o s_Conversation_history_cleared)
    /\ UNCHANGED <<clock, posts_memory, disk, n_calls>>

(***************************************************************************)
(* Queries of the post store                                               *)
(***************************************************************************)
SearchPosts(query) ==
    /\ call' = [op |-> "search_posts", query |-> query]
    /\ ret' = search_posts(posts_memory, query)
    /\ UNCHANGED <<clock, posts_memory, disk, chat_messages, n_calls>>

GetRecentPosts(limit) ==
    /\ call' = [op |-> "get_recent_posts", limit |-> limit]
    /\ ret' = Return(get_recent_posts(posts_memory, limit))
    /\ UNCHANGED <<clock, posts_memory, disk, chat_messages, n_calls>>

\* Time passes between two operations.
Tick ==
    /\ clock' = clock + 1
    /\ UNCHANGED <<posts_memory, disk, chat_messages, n_calls, call, ret>>

\* A new process: AIInfluencerChatbot.__init__ builds PostMemory (which loads
\* the posts directory) and an empty conversation memory.
Restart ==
    /\ \E listing \in Listings(disk) : posts_memory' = load_posts(disk, listing)
    /\ chat_messages' = <<>>
    /\ call' = [op |-> "init"]
    /\ ret' = Return(Null)
    /\ UNCHANGED <<clock, disk, n_calls>>

(***************************************************************************)
(* Inputs: what the callers pass and what the language model answers       *)
(***************************************************************************)
s_fitness == <<"f","i","t","n","e","s","s">>

s_home_yoga_plan_tips == <<"h","o","m","e"," ","y","o","g","a"," ","p","l","a","n"," ","t","i","p","s">>

s_gym_goers == <<"g","y","m","-","g","o","e","r","s">>

s_motivational == <<"m","o","t","i","v","a","t","i","o","n","a","l">>

s_Instagram == <<"I","n","s","t","a","g","r","a","m">>

s_tiktok == <<"t","i","k","t","o","k">>

s_timeout == <<"t","i","m","e","o","u","t">>

s_quota == <<"q","u","o","t","a"," ","e","x","c","e","e","d","e","d">>

NoObject == [none |-> TRUE]

TopicPlain == Reply(s_Fit_Tips_for_everyone, "none", NoObject)

TopicInvalid == Reply(s_Try_this_now, "invalid", NoObject)

TopicObject ==
    Reply(s_json_title_hook, "object",
          [title |-> s_Fit_Tips, hook |-> s_Go])

TopicNullTitle == Reply(s_json_title_null, "object", [title |-> Null])

TopicNoTitle == Reply(s_json_hook_Go, "object", [hook |-> s_Go])

ContentShort == Reply(s_Go_fit_padded, "none", NoObject)

\* A reply one character over twitter's budget of 280.
ContentLong == Reply([i \in 1..281 |-> "x"], "none", NoObject)

Digits == <<"0","1","2","3","4","5","6","7","8","9">>

\* "#t01", "#t02", ...
Tags(n) == [i \in 1..n |-> <<"#", "t", Digits[(i \div 10) + 1], Digits[(i % 10) + 1]>>]

HashtagObject(n) ==
    Reply(s_json_primary_hashtags, "object",
          [primary_hashtags |-> Tags(n), alternative_hashtags |-> <<s_hash_alt>>,
           strategy |-> s_mix, reach_prediction |-> s_high])

HashtagNoKey == Reply(s_json_strategy_mix, "object", [strategy |-> s_mix])

HashtagPlain == Reply(s_hash_fit_gym, "none", NoObject)

HashtagInvalid == Reply(s_brace_fit, "invalid", NoObject)

(***************************************************************************)
(* Spec: the post store over a process's life (and the next process's).    *)
(***************************************************************************)
MaxCalls == 2

MaxTicks == 1

Queries == {s_FIT, s_hash_t02}

Init ==
    /\ clock = SecondsPerMinute - 1
    /\ posts_memory = <<>>
    /\ disk = <<>>
    /\ chat_messages = <<>>
    /\ n_calls = 0
    /\ call = [op |-> "init"]
    /\ ret = Return(Null)

GeneratePost ==
    \E platform \in {s_twitter, s_Instagram},
       llm_topic \in {Failure(s_timeout), TopicNullTitle},
       fs \in {"ok", "json_open_fails", "makedirs_fails"} :
        /\ n_calls < MaxCalls
                /\ GenerateCompletePost(s_fitness, s_gym_goers, s_motivational, platform, Null,
                                llm_topic, ContentShort, HashtagObject(2), fs, 0, 0)

Search == \E query \in Queries : SearchPosts(query)

TimePasses == clock < SecondsPerMinute - 1 + MaxTicks /\ Tick

Next == GeneratePost \/ Search \/ TimePasses \/ Restart

Spec == Init /\ [][Next]_vars

(***************************************************************************)
(* SpecGen: one generate_complete_post call of a new process, for every    *)
(* input and every behaviour of the language model and the file system.    *)
(* The initial state holds the call to make; the action makes it.          *)
(***************************************************************************)
Niches == {s_fitness, s_home_yoga_plan_tips}

Platforms == {s_twitter, s_Instagram, s_tiktok}

TopicReplies ==
    {Failure(s_timeout), TopicPlain, TopicInvalid, TopicObject, TopicNullTitle, TopicNoTitle}

ContentReplies == {Failure(s_timeout), ContentShort, ContentLong}

HashtagReplies ==
    {Failure(s_timeout), HashtagPlain, HashtagInvalid, HashtagObject(2), HashtagObject(6),
     HashtagNoKey}

InitGen ==
    /\ clock = SecondsPerMinute - 1
    /\ posts_memory = <<>>
    /\ disk = <<>>
    /\ chat_messages = <<>>
    /\ n_calls = 0
    /\ ret = Return(Null)
    /\ \E niche \in Niches, platform \in Platforms, llm_topic \in TopicReplies,
          llm_content \in ContentReplies, llm_hashtags \in HashtagReplies,
          fs \in FileSystemOutcomes :
            call = [op |-> "pending", niche |-> niche, platform |-> platform,
                    llm_topic |-> llm_topic, llm_content |-> llm_content,
                    llm_hashtags |-> llm_hashtags, fs |-> fs]

RunGenerate ==
    \E d1 \in {0, 1}, d2 \in {0, 1} :
        /\ call.op = "pending"
        /\ GenerateCompletePost(call.niche, s_gym_goers, s_motivational, call.platform, Null,
                                call.llm_topic, call.llm_content, call.llm_hashtags,
                                call.fs, d1, d2)

NextGen == RunGenerate

SpecGen == InitGen /\ [][NextGen]_vars

(***************************************************************************)
(* SpecHashtags: generate_hashtags applied to every topic and content body *)
(* the other two generators can hand it, on every platform.                *)
(***************************************************************************)
s_linkedin_upper == <<"L","i","n","k","e","d","I","n">>

\* A reply whose first line has twelve words longer than three characters.
TopicLongLine ==
    Reply(s_twelve_words,
          "none", NoObject)

InitHashtags ==
    /\ clock = SecondsPerMinute - 1
    /\ posts_memory = <<>>
    /\ disk = <<>>
    /\ chat_messages = <<>>
    /\ n_calls = 0
    /\ ret = Return(Null)
    /\ \E niche \in Niches,
          platform \in Platforms \cup {s_linkedin_upper, s_facebook},
          llm_topic \in TopicReplies \cup {TopicLongLine},
          llm_hashtags \in HashtagReplies \cup {HashtagObject(31)} :
            LET topic_data == generate_topic(niche, s_gym_goers, s_motivational, llm_topic)
            IN  call = [op |-> "pending", topic_data |-> topic_data,
                        content_data |-> generate_content(topic_data, platform, ContentShort),
                        llm |-> llm_hashtags]

ApplyGenerateHashtags ==
    /\ call.op = "pending"
    /\ call' = [call EXCEPT !.op = "generate_hashtags"]
    /\ ret' = LET hashtag_data == generate_hashtags(call.topic_data, call.content_data,
                                                    Null, call.llm)
              IN  IF IsRaise(hashtag_data) THEN hashtag_data ELSE Return(hashtag_data)
    /\ UNCHANGED <<clock, posts_memory, disk, chat_messages, n_calls>>

NextHashtags == ApplyGenerateHashtags

SpecHashtags == InitHashtags /\ [][NextHashtags]_vars

(***************************************************************************)
(* SpecContent: generate_content on every platform, for replies of the     *)
(* lengths around each budget and for a failed call, after a short and     *)
(* after a 300-character title.                                            *)
(***************************************************************************)
InitContent ==
    /\ clock = SecondsPerMinute - 1
    /\ posts_memory = <<>>
    /\ disk = <<>>
    /\ chat_messages = <<>>
    /\ n_calls = 0
    /\ ret = Return(Null)
    /\ \E platform \in Platforms \cup {s_instagram, s_linkedin, s_linkedin_upper, s_facebook},
          llm_topic \in {Failure(s_timeout), Reply([i \in 1..300 |-> "x"], "none", NoObject)},
          llm_content \in {Failure(s_timeout), ContentShort}
                          \cup {Reply([i \in 1..n |-> "x"], "none", NoObject) :
                                    n \in {0, 280, 281, 2200, 2201, 3000, 3001}} :
            call = [op |-> "pending",
                    topic_data |-> generate_topic(s_fitness, s_gym_goers, s_motivational,
                                                  llm_topic),
                    platform |-> platform,
                    llm |-> llm_content]

ApplyGenerateContent ==
    /\ call.op = "pending"
    /\ call' = [call EXCEPT !.op = "generate_content"]
    /\ ret' = Return(generate_content(call.topic_data, call.platform, call.llm))
    /\ UNCHANGED <<clock, posts_memory, disk, chat_messages, n_calls>>

NextContent == ApplyGenerateContent

SpecContent == InitContent /\ [][NextContent]_vars

(***************************************************************************)
(* SpecSteps: generate_complete_post statement by statement.  call.pc is   *)
(* the statement the call stands before, call.invoked lists the generators *)
(* whose self.llm.invoke has been called, in the order of the calls.       *)
(***************************************************************************)
CallGenerateCompletePost ==
    /\ call.op = "steps" => call.pc = "returned"
    /\ n_calls < MaxCalls
    /\ n_calls' = n_calls + 1
    /\ \E llm_topic \in {Failure(s_timeout), TopicNullTitle},
          llm_hashtags \in {Failure(s_timeout), HashtagObject(2)},
          fs \in {"ok", "makedirs_fails"} :
            call' = [op |-> "steps", pc |-> "topic",
                     niche |-> s_fitness, audience |-> s_gym_goers,
                     tone |-> s_motivational, platform |-> s_twitter,
                     llm_topic |-> llm_topic, llm_content |-> ContentShort,
                     llm_hashtags |-> llm_hashtags, fs |-> fs,
                     invoked |-> <<>>]
    /\ UNCHANGED <<clock, posts_memory, disk, chat_messages, ret>>

\* Mutant of StepTopic: a failed call of the model is made a second time.
StepTopic_retrying ==
    /\ call.op = "steps" /\ call.pc = "topic"
    /\ call' = [f \in DOMAIN call \cup {"topic_data"} |->
                  IF f = "pc" THEN "content"
                  ELSE IF f = "invoked"
                  THEN IF call.llm_topic.fails THEN call.invoked \o <<"topic", "topic">>
                       ELSE Append(call.invoked, "topic")
                  ELSE IF f = "topic_data"
                  THEN generate_topic(call.niche, call.audience, call.tone, call.llm_topic)
                  ELSE call[f]]
    /\ UNCHANGED <<clock, posts_memory, disk, chat_messages, n_calls, ret>>

\* Line 413: generate_topic calls the model once (line 139) and returns.
StepTopic ==
    /\ call.op = "steps" /\ call.pc = "topic"
    /\ call' = [f \in DOMAIN call \cup {"topic_data"} |->
                  IF f = "pc" THEN "content"
                  ELSE IF f = "invoked" THEN Append(call.invoked, "topic")
                  ELSE IF f = "topic_data"
                  THEN generate_topic(call.niche, call.audience, call.tone, call.llm_topic)
                  ELSE call[f]]
    /\ UNCHANGED <<clock, posts_memory, disk, chat_messages, n_calls, ret>>

\* Line 418: generate_content calls the model once (line 212) and returns.
StepContent ==
    /\ call.op = "steps" /\ call.pc = "content"
    /\ call' = [f \in DOMAIN call \cup {"content_data"} |->
                  IF f = "pc" THEN "hashtags"
                  ELSE IF f = "invoked" THEN Append(call.invoked, "content")
                  ELSE IF f = "content_data"
                  THEN generate_content(call.topic_data, call.platform, call.llm_content)
                  ELSE call[f]]
    /\ UNCHANGED <<clock, posts_memory, disk, chat_messages, n_calls, ret>>

\* Line 423: generate_hashtags calls the model once (line 281) and returns,
\* or raises from its handler.
StepHashtags ==
    /\ call.op = "steps" /\ call.pc = "hashtags"
    /\ LET hashtag_data == generate_hashtags(call.topic_data, call.content_data,
                                             Null, call.llm_hashtags)
       IN  call' = [f \in DOMAIN call \cup {"hashtag_data"} |->
                      IF f = "pc" THEN IF IsRaise(hashtag_data) THEN "except" ELSE "save_post"
                      ELSE IF f = "invoked" THEN Append(call.invoked, "hashtags")
                      ELSE IF f = "hashtag_data" THEN hashtag_data
                      ELSE call[f]]
    /\ UNCHANGED <<clock, posts_memory, disk, chat_messages, n_calls, ret>>

\* Lines 427-444: the post is compiled and handed to _save_post.
StepSavePost ==
    /\ call.op = "steps" /\ call.pc = "save_post"
    /\ LET complete_post == compile_post(call.niche, call.audience, call.tone,
                                         call.platform, Null, call.topic_data,
                                         call.content_data, call.hashtag_data,
                                         clock, clock)
           saved == save_post(disk, complete_post, clock, call.fs)
       IN  /\ call' = [f \in DOMAIN call \cup {"complete_post"} |->
                         IF f = "pc" THEN IF IsRaise(saved) THEN "except" ELSE "add_post"
                         ELSE IF f = "complete_post" THEN complete_post
                         ELSE call[f]]
           /\ disk' = IF IsRaise(saved) THEN disk ELSE saved.files
    /\ UNCHANGED <<clock, posts_memory, chat_messages, n_calls, ret>>

\* Line 447
StepAddPost ==
    /\ call.op = "steps" /\ call.pc = "add_post"
    /\ posts_memory' = add_post(posts_memory, call.complete_post)
    /\ call' = [call EXCEPT !.pc = "save_context"]
    /\ UNCHANGED <<clock, disk, chat_messages, n_calls, ret>>

\* Lines 450-453
StepSaveContext ==
    /\ call.op = "steps" /\ call.pc = "save_context"
    /\ chat_messages' = save_context(chat_messages,
           s_Generate_a \o call.platform \o s_post_about \o call.niche,
           s_Generated_post \o Format(Get(call.topic_data, "title", <<>>)))
    /\ call' = [call EXCEPT !.pc = "return"]
    /\ UNCHANGED <<clock, posts_memory, disk, n_calls, ret>>

\* Line 455
StepReturn ==
    /\ call.op = "steps" /\ call.pc = "return"
    /\ ret' = Return(call.complete_post)
    /\ call' = [call EXCEPT !.pc = "returned"]
    /\ UNCHANGED <<clock, posts_memory, disk, chat_messages, n_calls>>

\* Lines 457-463: the handler of generate_complete_post.
StepExcept ==
    /\ call.op = "steps" /\ call.pc = "except"
    /\ ret' = Return(error_result(IF "hashtag_data" \in DOMAIN call /\ IsRaise(call.hashtag_data)
                                  THEN call.hashtag_data ELSE Raise("OSError"), clock))
    /\ call' = [call EXCEPT !.pc = "returned"]
    /\ UNCHANGED <<clock, posts_memory, disk, chat_messages, n_calls>>

NextSteps ==
    \/ CallGenerateCompletePost
    \/ StepTopic \/ StepContent \/ StepHashtags
    \/ StepSavePost \/ StepAddPost \/ StepSaveContext \/ StepReturn
    \/ StepExcept

SpecSteps == Init /\ [][NextSteps]_vars

(***************************************************************************)
(* SpecRestart: posts generated and written with nothing failing, the      *)
(* clock moving on by a second here and there within a call, and new       *)
(* processes loading what is on disk.                                      *)
(***************************************************************************)
InitRestart ==
    /\ clock = SecondsPerMinute - 2
    /\ posts_memory = <<>>
    /\ disk = <<>>
    /\ chat_messages = <<>>
    /\ n_calls = 0
    /\ call = [op |-> "init"]
    /\ ret = Return(Null)

GenerateWritten ==
    \E platform \in {s_twitter, s_Instagram}, d1 \in {0, 1}, d2 \in {0, 1} :
        /\ n_calls < MaxCalls
        /\ GenerateCompletePost(s_fitness, s_gym_goers, s_motivational, platform, Null,
                                Failure(s_timeout), ContentShort, HashtagObject(2),
                                "ok", d1, d2)

NextRestart == GenerateWritten \/ Restart

SpecRestart == InitRestart /\ [][NextRestart]_vars

(***************************************************************************)
(* SpecChat: the conversational session: chat turns, post generations and  *)
(* clear_history, in any order.                                            *)
(***************************************************************************)
MaxTurns == 7

ChatInputs == {s_hi, s_Tips_question}

ChatReplies == {Failure(s_timeout), Failure(s_quota), Reply(s_Sure_padded, "none", NoObject)}

ChatTurn ==
    \E user_input \in ChatInputs, llm \in ChatReplies :
        /\ Len(chat_messages) < 2 * MaxTurns
        /\ Chat(user_input, llm)

PostTurn ==
    \E fs \in {"ok", "makedirs_fails"} :
        /\ Len(chat_messages) < 2 * MaxTurns
        /\ n_calls < MaxCalls
        /\ GenerateCompletePost(s_fitness, s_gym_goers, s_motivational, s_twitter, Null,
                                Failure(s_timeout), ContentShort, HashtagObject(2), fs, 0, 0)

NextChat == ChatTurn \/ PostTurn \/ ClearHistory

SpecChat == Init /\ [][NextChat]_vars

(***************************************************************************)
(* SpecRecent: get_recent_posts on the index a new process loads from the  *)
(* files earlier processes left: file i holds a post generated in second   *)
(* i, its timestamp read in that second or the next, and os.listdir gives  *)
(* the files in any order.                                                 *)
(***************************************************************************)
MaxFiles == 3

MaxLimit == 4

PlatformOfFile == <<s_twitter, s_instagram, s_linkedin, s_facebook, s_tiktok>>

RECURSIVE FilesLeft(_, _)
FilesLeft(n, delays) ==
    IF n = 0 THEN <<>>
    ELSE LET topic_data == generate_topic(s_fitness, s_gym_goers, s_motivational,
                                          Failure(s_timeout))
             content_data == generate_content(topic_data, PlatformOfFile[n], ContentShort)
             hashtag_data == generate_hashtags(topic_data, content_data, Null,
                                               HashtagObject(2))
         IN  save_post(FilesLeft(n - 1, delays),
                       compile_post(s_fitness, s_gym_goers, s_motivational, PlatformOfFile[n],
                                    Null, topic_data, content_data, hashtag_data,
                                    n, n + delays[n]),
                       n + delays[n], "ok").files

InitRecent ==
    /\ clock = SecondsPerMinute - 1
    /\ chat_messages = <<>>
    /\ n_calls = 0
    /\ call = [op |-> "init"]
    /\ ret = Return(Null)
    /\ \E n \in 0..MaxFiles :
         \E delays \in [1..n -> {0, 1}] :
            /\ disk = FilesLeft(n, delays)
            /\ \E listing \in Listings(FilesLeft(n, delays)) :
                  posts_memory = load_posts(FilesLeft(n, delays), listing)

Recent == \E limit \in 0..MaxLimit : GetRecentPosts(limit)

NextRecent == Recent

SpecRecent == InitRecent /\ [][NextRecent]_vars

(***************************************************************************)
(* Claims                                                                  *)
(***************************************************************************)
IsGenerated == call.op = "generate_complete_post"

\* C1 (SpecHashtags): the HashtagSet generate_hashtags returns has
\* len(primary_hashtags) = total_primary <= max_tags(platform), on the
\* success path and on both fallback paths.
C1_PrimaryCountWithinLimit ==
    (call.op = "generate_hashtags" /\ ~IsRaise(ret)) =>
        /\ Len(ret.returned.primary_hashtags) = ret.returned.total_primary
        /\ ret.returned.total_primary <= hashtag_limit(call.content_data.platform)

\* C2 (SpecGen): no generator raises to generate_complete_post, so a result
\* with ready_to_post = False comes only from a failure outside the
\* generators (here: os.makedirs).
C2_GeneratorFailuresNeverEscape ==
    IsGenerated =>
        /\ ~call.generator_raised
        /\ ret.returned.ready_to_post = FALSE => call.fs = "makedirs_fails"

\* C3 (Spec): every generate_complete_post call that returns a ready post
\* returns an id that no index entry had before, and adds one entry.
C3_FreshPostId ==
    [][(n_calls' = n_calls + 1 /\ ret'.returned.ready_to_post) =>
          /\ \A i \in 1..Len(posts_memory) :
                posts_memory[i].post_id # ret'.returned.post_id
          /\ Len(posts_memory') = Len(posts_memory) + 1]_vars

\* C4 (Spec): every index entry's file_path names a file of the posts
\* directory that holds that post.
C4_EntryHasItsFile ==
    \A i \in 1..Len(posts_memory) :
        LET file_path == posts_memory[i].entry.file_path
        IN  /\ file_path \in DOMAIN disk
            /\ disk[file_path].format = "json"
            /\ json_load(disk[file_path].data).post_id = posts_memory[i].post_id

IsErrorResult(result) ==
    /\ result.ready_to_post = FALSE
    /\ {"error", "generation_timestamp"} \subseteq DOMAIN result

\* C5 as stated (SpecGen): a failure while persisting the post, a failed
\* write included, gives an error result with ready_to_post = False.
C5_StorageFailureGivesErrorResult ==
    (IsGenerated /\ call.fs \in {"makedirs_fails", "json_open_fails", "txt_open_fails"}) =>
        ~IsRaise(ret) /\ IsErrorResult(ret.returned)

\* C5 as amended (SpecGen): generate_complete_post never raises; an exception
\* that reaches its handler (from a generator, or from os.makedirs at the
\* start of _save_post) gives an error result with ready_to_post = False, an
\* error message and a timestamp; a failed write inside _save_post is
\* swallowed there and the post is returned with ready_to_post = True.
C5_HandlerCatchesWhatReachesIt ==
    IsGenerated =>
        /\ ~IsRaise(ret)
        /\ (call.generator_raised \/ call.fs = "makedirs_fails") => IsErrorResult(ret.returned)
        /\ call.fs \in {"json_open_fails", "txt_open_fails"} =>
              ret.returned.ready_to_post = TRUE /\ "post_id" \in DOMAIN ret.returned

C5_MakedirsFailed ==
    IsGenerated /\ call.fs = "makedirs_fails" /\ IsErrorResult(ret.returned)

\* The turns of a message list: (human, ai) pairs.
TurnsOf(messages) ==
    [i \in 1..(Len(messages) \div 2) |->
        [input |-> messages[2 * i - 1].content, output |-> messages[2 * i].content]]

Window == TurnsOf(buffer)

\* A FIFO of at most k turns takes a new turn.
Pushed(window, turn) ==
    IF Len(window) < k THEN Append(window, turn) ELSE Append(Tail(window), turn)

\* C6 (SpecChat): the window holds at most 5 turns, and every successful
\* chat() and every successful post generation appends its turn at the end,
\* evicting the oldest turn when 5 are held; so the window is always the
\* most recent turns in their order.
C6_WindowIsFifoOfFive ==
    /\ [](Len(Window) <= 5 /\ Len(buffer) = 2 * Len(Window))
    /\ [][/\ (call'.op = "chat" /\ ~call'.llm.fails) =>
               Window' = Pushed(Window, [input |-> call'.user_input,
                                         output |-> call'.llm.content])
          /\ (call'.op = "generate_complete_post" /\ ret'.returned.ready_to_post) =>
               Window' = Pushed(Window,
                             [input |-> s_Generate_a \o call'.platform
                                        \o s_post_about \o call'.niche,
                              output |-> s_Generated_post
                                         \o ret'.returned.topic.title])]_vars

\* Seven chat() calls since the window was empty: it holds the last five.
C6_SevenChatsKeepFive ==
    /\ Len(chat_messages) = 14
    /\ \A i \in 1..7 : chat_messages[2 * i - 1].content \in ChatInputs
    /\ Window = SubSeq(TurnsOf(chat_messages), 3, 7)

ApologyFor(error) ==
    <<"U+274C">> \o s_I_encountered_an_error \o error \o s_Let_me_try_to

IsFailedChat(c) == c.op = "chat" /\ c.llm.fails

\* C7 as stated (SpecChat): a failed chat() returns one fixed string, the
\* same for every failure, and leaves the window as it was; clear() empties
\* the window.
C7_SameApologyWhateverTheFailure ==
    [][/\ IsFailedChat(call') => chat_messages' = chat_messages
       /\ (IsFailedChat(call) /\ IsFailedChat(call')) => ret' = ret
       /\ call'.op = "clear_history" => chat_messages' = <<>>]_vars

\* C7 as amended (SpecChat): a failed chat() returns the apology text with
\* the failure's own message in it and leaves the window as it was; clear()
\* empties the window.
C7_FailedChatKeepsWindow ==
    [][/\ IsFailedChat(call') =>
            /\ chat_messages' = chat_messages
            /\ ret' = Return(ApologyFor(call'.llm.error))
       /\ call'.op = "clear_history" => chat_messages' = <<>>]_vars

C7_FailedChatOnNonEmptyWindow ==
    IsFailedChat(call) /\ chat_messages # <<>> /\ ret = Return(ApologyFor(s_quota))

\* C8 (SpecGen): with a language model that fails on every call (and a file
\* system that works) the post is ready, its title is
\* "Latest {Niche} Insights" and total_primary <= max_tags(platform).
C8_FallbackPost ==
    (/\ IsGenerated
     /\ call.llm_topic.fails /\ call.llm_content.fails /\ call.llm_hashtags.fails
     /\ call.fs = "ok") =>
        /\ ret.returned.ready_to_post = TRUE
        /\ ret.returned.topic.title = s_Latest \o title(call.niche) \o s_Insights
        /\ ret.returned.hashtags.total_primary <= hashtag_limit(call.platform)

\* C9 (Spec): search_posts(q) returns exactly the index entries whose
\* lower-cased title, content or one of whose hashtags contains the
\* lower-cased q, each once, in index order.
C9_SearchReturnsExactlyTheMatches ==
    call.op = "search_posts" =>
        /\ ~IsRaise(ret)
        /\ ret.returned =
             SelectSeq(dict_values(posts_memory),
                       LAMBDA post :
                           \/ Contains(lower(call.query), lower(post.title))
                           \/ Contains(lower(call.query), lower(post.content))
                           \/ \E i \in 1..Len(post.hashtags) :
                                 Contains(lower(call.query), lower(post.hashtags[i])))

\* Entry a comes before entry b in recent()'s order: a later timestamp, or
\* the same timestamp and an earlier place in the index.
RankedBefore(entries, a, b) ==
    \/ entries[a].timestamp > entries[b].timestamp
    \/ entries[a].timestamp = entries[b].timestamp /\ a < b

\* C10 (SpecRecent): get_recent_posts(limit) returns min(limit, size)
\* entries, the greatest timestamps first, entries with equal timestamps in
\* index order, and no entry left out comes before a returned one.
C10_RecentIsNewestFirst ==
    call.op = "get_recent_posts" =>
        LET entries == dict_values(posts_memory)
            recent == ret.returned
        IN  /\ Len(recent) = Min(call.limit, Len(entries))
            /\ \E place \in [1..Len(recent) -> 1..Len(entries)] :
                  /\ \A i \in 1..Len(recent) : recent[i] = entries[place[i]]
                  /\ \A i, j \in 1..Len(recent) :
                        i < j => RankedBefore(entries, place[i], place[j])
                  /\ \A e \in 1..Len(entries) :
                        (\A i \in 1..Len(recent) : place[i] # e) =>
                            \A i \in 1..Len(recent) : RankedBefore(entries, place[i], e)

\* Three entries with timestamps T1 < T2 < T3 and recent(2) = [T3, T2], the
\* index not in timestamp order.
C10_TwoOfThree ==
    /\ call.op = "get_recent_posts" /\ call.limit = 2
    /\ Len(posts_memory) = 3
    /\ posts_memory[1].entry.timestamp = 2
    /\ posts_memory[2].entry.timestamp = 1
    /\ posts_memory[3].entry.timestamp = 3
    /\ ret.returned = <<posts_memory[3].entry, posts_memory[1].entry>>

\* The fields the entries of add_post and of load_posts are compared in.
SameIndexedFields(a, b) ==
    /\ a.platform = b.platform
    /\ a.niche = b.niche
    /\ a.title = b.title
    /\ a.content = b.content
    /\ a.hashtags = b.hashtags
    /\ a.timestamp = b.timestamp

\* C11 (Spec): when a new process starts right after a post was returned
\* and its JSON file written, load_posts gives an index entry under that
\* post's id with the platform, niche, title, content, hashtags and
\* timestamp of the entry add_post made for the post.
C11_ReloadedEntryEqualsAddedEntry ==
    [][(call.op = "generate_complete_post" /\ call.fs = "ok" /\ call'.op = "init") =>
          LET post == ret.returned
              added == add_post(<<>>, post)[1]
          IN  \E i \in 1..Len(posts_memory') :
                 /\ posts_memory'[i].post_id = added.post_id
                 /\ SameIndexedFields(posts_memory'[i].entry, added.entry)]_vars

\* The budget B(P) of a platform: instagram 2200, linkedin 3000, twitter
\* 280, facebook 63206, any other 2200; the name is read in lower case.
Budget(platform) ==
    CASE lower(platform) = s_twitter -> 280
      [] lower(platform) = s_linkedin -> 3000
      [] lower(platform) = s_facebook -> 63206
      [] OTHER -> 2200

\* C12 (SpecContent): when the call succeeds the ContentBody holds the
\* trimmed reply, character_count is its length and within_limit is true
\* exactly when character_count <= B(P); when the call fails
\* character_count is 0 and within_limit is true whatever the length of the
\* fallback text.
C12_WithinLimitIffCountWithinBudget ==
    call.op = "generate_content" =>
        LET body == ret.returned
        IN  IF call.llm.fails
            THEN body.character_count = 0 /\ body.within_limit = TRUE
            ELSE /\ body.content = strip(call.llm.content)
                 /\ body.character_count = Len(body.content)
                 /\ body.within_limit = (body.character_count <= Budget(call.platform))

\* A reply one character over the budget of a platform named with capital
\* letters ("LinkedIn"), and so not within the limit.
C12_OverLinkedInBudget ==
    /\ call.op = "generate_content" /\ ~call.llm.fails
    /\ call.platform = s_linkedin_upper
    /\ ret.returned.character_count = 3001
    /\ ret.returned.within_limit = FALSE

GeneratorsInOrder == <<"topic", "content", "hashtags">>

\* C13 (SpecSteps): in one generate_complete_post call the model is called
\* at most three times, by the topic, content and hashtag generators in
\* that order and each once, a failed call included; the files, the index
\* and the window change only when the three generators have finished; and
\* when the post is returned all three have been called, the post is in
\* the index and its turn is the last of the window.
C13_ThreeCallsThenEffectsThenReturn ==
    /\ [](call.op = "steps" =>
            /\ Len(call.invoked) <= 3
            /\ call.invoked = SubSeq(GeneratorsInOrder, 1, Len(call.invoked)))
    /\ [][/\ (disk' # disk \/ posts_memory' # posts_memory \/ chat_messages' # chat_messages) =>
               /\ call.op = "steps"
               /\ call.invoked = GeneratorsInOrder
               /\ call'.invoked = GeneratorsInOrder
               /\ ret' = ret
          /\ (/\ call'.op = "steps" /\ call'.pc = "returned" /\ call.pc # "returned"
              /\ ret'.returned.ready_to_post) =>
               /\ call.invoked = GeneratorsInOrder
               /\ UNCHANGED <<disk, posts_memory, chat_messages>>
               /\ \E i \in 1..Len(posts_memory) :
                     posts_memory[i].post_id = ret'.returned.post_id
               /\ chat_messages[Len(chat_messages)].content =
                     s_Generated_post \o Format(ret'.returned.topic.title)]_vars

\* A post returned after the topic call and the hashtag call both failed:
\* three calls of the model, none repeated, and the file is written.
C13_ReturnedAfterFailedCalls ==
    /\ call.op = "steps" /\ call.pc = "returned"
    /\ call.llm_topic.fails /\ call.llm_hashtags.fails
    /\ call.invoked = GeneratorsInOrder
    /\ ret.returned.ready_to_post
    /\ disk # <<>>

\* C14 (SpecRestart): every call so far returned a ready post and wrote its
\* files; when a new process loads the posts directory its index has an
\* entry for every post id of the index of the process before.
C14_RestartKeepsEveryPostId ==
    [][call'.op = "init" =>
          \A i \in 1..Len(posts_memory) :
             \E j \in 1..Len(posts_memory') :
                posts_memory'[j].post_id = posts_memory[i].post_id]_vars

\* C15 (Spec): a generate_complete_post call that returns ready_to_post =
\* False leaves the index and the conversation messages as they were; the
\* index or the messages change in a call only if it returns a ready post.
C15_FailedCallLeavesIndexAndWindow ==
    [][n_calls' = n_calls + 1 =>
          /\ ret'.returned.ready_to_post = FALSE =>
                posts_memory' = posts_memory /\ chat_messages' = chat_messages
          /\ (posts_memory' # posts_memory \/ chat_messages' # chat_messages) =>
                ret'.returned.ready_to_post = TRUE]_vars

\* A call that failed (os.makedirs) in a process that holds a post and its
\* turn already.
C15_FailedCallOnNonEmptyStore ==
    /\ IsGenerated
    /\ ret.returned.ready_to_post = FALSE
    /\ posts_memory # <<>>
    /\ chat_messages # <<>>

====
